---- MODULE Spec2Model ----
(***************************************************************************)
(* Model of meeting_scripts_generator.py: the command-line pipeline        *)
(*   construct generator -> read notes -> generate script -> resolve       *)
(*   output path -> save script -> return -> process exit                  *)
(* together with the text functions of MeetingScriptGenerator              *)
(* (_extract_code_from_response, _validate_python_code, generate_script).  *)
(*                                                                         *)
(* Text is a sequence of tokens.  Each token stands for a fixed piece of   *)
(* text; str.split, str.strip, str.startswith, the in operator and the     *)
(* regular expression of the indentation repair are computed on these      *)
(* sequences the way Python computes them on characters.                   *)
(***************************************************************************)
EXTENDS Integers, Sequences, FiniteSets, TLC

\* ---------------------------------------------------------------- bounds
\* Longest model reply enumerated by the text specification SpecText.
MaxLen == 4
\* Longest model reply the remote service returns in the pipeline Spec.
MaxReplyLen == 3

\* ---------------------------------------------------------------- tokens
\* the fence marker of a fenced code block (three backquotes)
FENCE == "<fence>"
PY == "python"
SP == " "
NL == "\n"
\* a statement that compiles on its own, and a token no program may hold
STMT == "pass"
BAD == ")"
HASHBANG == "#!"
ENVPY == "/usr/bin/env python3"
WARN1 == "# WARNING: Generated code contains syntax errors"
WARN2 == "# Please review and fix the following code:"
GEN_ON == "# Generated on: "
MODEL_IS == "# Model: "
SOURCE_IS == "# Source: Meeting notes"
PROMPT == "You are an expert Python developer. ... Here are the meeting notes to base the script on:\n"

ReplyAlphabet == {FENCE, PY, SP, NL, STMT, BAD, HASHBANG}
\* the tokens of the replies of the pipeline Spec
RunAlphabet == {FENCE, PY, STMT, BAD}
Whitespace == {SP, NL}
CommentTokens == {HASHBANG, WARN1, WARN2, GEN_ON, MODEL_IS, SOURCE_IS}
NameTokens == {STMT, PY}

SeqsUpTo(S, n) == UNION {[1..k -> S] : k \in 0..n}

\* ------------------------------------------------------ string primitives
\* sep occurs in s at index i
OccursAt(s, sep, i) ==
  /\ i >= 1
  /\ i + Len(sep) - 1 <= Len(s)
  /\ SubSeq(s, i, i + Len(sep) - 1) = sep

\* first index >= from at which sep occurs in s, 0 when there is none
Find(s, sep, from) ==
  LET hits == {i \in from..Len(s) : OccursAt(s, sep, i)}
  IN IF hits = {} THEN 0 ELSE CHOOSE i \in hits : \A j \in hits : i <= j

\* Python: sep in s
Contains(s, sep) == Find(s, sep, 1) # 0

\* Python: s.startswith(p)
StartsWith(s, p) == OccursAt(s, p, 1)

\* Python: s.split(sep), left to right, non-overlapping; Python index k is
\* index k+1 of the result
RECURSIVE Split(_, _)
Split(s, sep) ==
  LET i == Find(s, sep, 1)
  IN IF i = 0 THEN <<s>>
     ELSE <<SubSeq(s, 1, i - 1)>> \o Split(SubSeq(s, i + Len(sep), Len(s)), sep)

\* Python: sep.join(parts)
RECURSIVE Join(_, _)
Join(parts, sep) ==
  IF Len(parts) = 0 THEN <<>>
  ELSE IF Len(parts) = 1 THEN parts[1]
  ELSE parts[1] \o sep \o Join(Tail(parts), sep)

\* number of leading tokens of s that are in W
RECURSIVE LeadingIn(_, _)
LeadingIn(s, W) ==
  IF s # <<>> /\ Head(s) \in W THEN 1 + LeadingIn(Tail(s), W) ELSE 0

\* number of trailing tokens of s that are in W
RECURSIVE TrailingIn(_, _)
TrailingIn(s, W) ==
  IF s # <<>> /\ s[Len(s)] \in W THEN 1 + TrailingIn(SubSeq(s, 1, Len(s) - 1), W) ELSE 0

\* Python: s.strip()
Strip(s) ==
  LET a == LeadingIn(s, Whitespace)
  IN IF a = Len(s) THEN <<>>
     ELSE SubSeq(s, a + 1, Len(s) - TrailingIn(s, Whitespace))

Spaces(n) == [i \in 1..n |-> SP]

\* ------------------------------------------------- compile(code, "exec")
\* One line of a program over the tokens: its indentation, then at most one
\* statement made of name tokens (adjacent names read as one identifier),
\* then an optional comment.  Without a block opener in the alphabet a
\* statement may only stand at indentation 0; blank and comment-only lines
\* may be indented freely.
LineCompiles(line) ==
  LET n == LeadingIn(line, {SP})
      rest == SubSeq(line, n + 1, Len(line))
      hashes == {i \in 1..Len(rest) : rest[i] \in CommentTokens}
      cut == IF hashes = {} THEN Len(rest) + 1
             ELSE CHOOSE i \in hashes : \A j \in hashes : i <= j
      body == SubSeq(rest, 1, cut - 1)
      stmt == SubSeq(body, 1, Len(body) - TrailingIn(body, {SP}))
  IN \/ stmt = <<>>
     \/ /\ n = 0
        /\ \A i \in 1..Len(stmt) : stmt[i] \in NameTokens

\* compile(code, "<string>", "exec") raises no SyntaxError
Compiles(code) ==
  LET lines == Split(code, <<NL>>)
  IN \A k \in 1..Len(lines) : LineCompiles(lines[k])

\* re.sub(r'^\s+', lambda m: ' ' * (len(m.group(0)) // 4 * 4), line)
FixLine(line) ==
  LET n == LeadingIn(line, {SP})
  IN Spaces((n \div 4) * 4) \o SubSeq(line, n + 1, Len(line))

\* the indentation repair of _validate_python_code
FixIndentation(code) ==
  LET lines == Split(code, <<NL>>)
  IN Join([k \in 1..Len(lines) |-> FixLine(lines[k])], <<NL>>)

ShebangLine == <<HASHBANG, ENVPY, NL, NL>>
WarningBanner == <<HASHBANG, ENVPY, NL, WARN1, NL, WARN2, NL, NL>>

\* code after the fence removal and the shebang step of _validate_python_code
Normalized(code) ==
  LET unfenced ==
        IF Contains(code, <<FENCE, PY>>)
          THEN Strip(Split(Split(code, <<FENCE, PY>>)[2], <<FENCE>>)[1])
        ELSE IF Contains(code, <<FENCE>>)
          THEN Strip(Split(code, <<FENCE>>)[2])
        ELSE code
      stripped == Strip(unfenced)
  IN IF StartsWith(stripped, <<HASHBANG>>) THEN stripped ELSE ShebangLine \o stripped

\* which branch _validate_python_code takes
ValidateOutcome(code) ==
  IF Compiles(Normalized(code)) THEN "ok"
  ELSE IF Compiles(FixIndentation(Normalized(code))) THEN "fixed"
  ELSE "fallback"

_validate_python_code(code) ==
  LET c == Normalized(code)
  IN CASE ValidateOutcome(code) = "ok" -> c
       [] ValidateOutcome(code) = "fixed" -> FixIndentation(c)
       [] OTHER -> WarningBanner \o c \o <<NL>>

\* a variant that forgets the .strip() of the fenced branches
_extract_unstripped(response_text) ==
  IF Contains(response_text, <<FENCE, PY>>)
    THEN Split(Split(response_text, <<FENCE, PY>>)[2], <<FENCE>>)[1]
  ELSE IF Contains(response_text, <<FENCE>>)
    THEN Split(response_text, <<FENCE>>)[2]
  ELSE Strip(response_text)

\* a variant that tests for the generic fence before the tagged one
_extract_generic_first(response_text) ==
  IF Contains(response_text, <<FENCE>>)
    THEN Strip(Split(response_text, <<FENCE>>)[2])
  ELSE IF Contains(response_text, <<FENCE, PY>>)
    THEN Strip(Split(Split(response_text, <<FENCE, PY>>)[2], <<FENCE>>)[1])
  ELSE Strip(response_text)

_extract_code_from_response(response_text) ==
  IF Contains(response_text, <<FENCE, PY>>)
    THEN Strip(Split(Split(response_text, <<FENCE, PY>>)[2], <<FENCE>>)[1])
  ELSE IF Contains(response_text, <<FENCE>>)
    THEN Strip(Split(response_text, <<FENCE>>)[2])
  ELSE Strip(response_text)

\* self.model after __init__, whatever model argument was passed
Model == "Bard"

\* the header generate_script puts before the code
Header(now) ==
  <<HASHBANG, ENVPY, NL, GEN_ON, now, NL, MODEL_IS, Model, NL, SOURCE_IS, NL, NL>>

\* a variant whose prompt names the script type
BuildPromptTyped(meeting_notes, script_type) ==
  <<PROMPT, script_type, NL, NL>> \o meeting_notes

\* the prompt generate_script sends: f"{prompt}\n\n{meeting_notes}"
BuildPrompt(meeting_notes, script_type) == <<PROMPT, NL, NL>> \o meeting_notes

\* the text generate_script returns under the key "script"
ScriptText(content, now, script_type) ==
  Header(now) \o _extract_code_from_response(content)

\* ------------------------------------------------------------- pipeline
NoKey == "None"
NoOutput == "None"
NoError == "None"
ArgKey == "key-from-argument"
EnvKey == "key-from-environment"
ScriptTypes == {"script", "module", "class"}
Notes == {<<"notes-a">>, <<"notes-b">>}
Clock == {"T1", "T2"}
OldText == <<"previous content">>
JSON == "json.dump(script_data, indent=2)"

\* datetime.now().strftime('%Y-%m-%d %H:%M:%S')
StrftimeHeader(t) == IF t = "T1" THEN "2024-01-01 10:00:00" ELSE "2024-01-01 10:00:01"
\* os.path.join(output_dir, f"generated_script_{timestamp}.py") with
\* timestamp = datetime.now().strftime("%Y%m%d_%H%M%S")
GeneratedPath(t) ==
  IF t = "T1" THEN "output_scripts/generated_script_20240101_100000.py"
  ELSE "output_scripts/generated_script_20240101_100001.py"
OutputDir == "output_scripts"
UserPath == "out/script.py"
UserDir == "out"
Paths == {UserPath} \cup {GeneratedPath(t) : t \in Clock}
\* os.path.dirname(os.path.abspath(output_path))
DirName(path) == IF path = UserPath THEN UserDir ELSE OutputDir

Absent == [exists |-> FALSE, text |-> <<>>]
File(text) == [exists |-> TRUE, text |-> text]
NoData == <<>>
Replies == SeqsUpTo(RunAlphabet, MaxReplyLen)

VARIABLES
  pc,            \* position of main()
  args_api_key,  \* --api-key
  env_api_key,   \* BARD_API_KEY
  input_file,    \* what the input path resolves to: missing, unreadable, ok
  args_output,   \* args.output
  script_type,   \* --script-type
  fs,            \* the files at the output paths
  fs0,           \* the files when the run started
  dirs,          \* directories made by the run
  api_key,       \* generator.api_key
  meeting_notes, \* text returned by read_meeting_notes
  request,       \* prompt passed to bard.get_answer
  response,      \* response['content']
  now,           \* clock read by generate_script
  script_data,   \* dict returned by generate_script
  error,         \* the exception main() caught
  ret,           \* value returned by main()
  exit_status,   \* exit status of the process
  log,           \* effects of the run, in order
  t_reply,       \* text specification: the reply under test
  t_code,        \* text specification: _extract_code_from_response(t_reply)
  t_valid,       \* text specification: _validate_python_code(t_reply)
  t_script,      \* text specification: generate_script(...)["script"]
  tpc            \* text specification: position

runVars == <<pc, args_api_key, env_api_key, input_file, args_output, script_type,
             fs, fs0, dirs, api_key, meeting_notes, request, response, now,
             script_data, error, ret, exit_status, log>>
textVars == <<t_reply, t_code, t_valid, t_script, tpc>>
vars == <<runVars, textVars>>

RunStart(k, e, i, o, st, f) ==
  /\ pc = "construct"
  /\ args_api_key = k
  /\ env_api_key = e
  /\ input_file = i
  /\ args_output = o
  /\ script_type = st
  /\ fs = f
  /\ fs0 = f
  /\ dirs = {}
  /\ api_key = NoKey
  /\ meeting_notes = <<>>
  /\ request = <<>>
  /\ response = <<>>
  /\ now = "T1"
  /\ script_data = NoData
  /\ error = NoError
  /\ ret = 0
  /\ exit_status = 0
  /\ log = <<>>

TextStart(r) ==
  /\ t_reply = r
  /\ t_code = <<>>
  /\ t_valid = <<>>
  /\ t_script = <<>>
  /\ tpc = "start"

Init ==
  /\ \E k \in {NoKey, ArgKey}, e \in {NoKey, EnvKey},
        i \in {"missing", "unreadable", "ok"}, o \in {NoOutput, UserPath},
        st \in ScriptTypes, old \in {Absent, File(OldText)} :
       RunStart(k, e, i, o, st, [p \in Paths |-> IF p = UserPath THEN old ELSE Absent])
  /\ TextStart(<<>>)

Raise(e) ==
  /\ error' = e
  /\ pc' = "except"

\* self.api_key = api_key or os.getenv("BARD_API_KEY")
ResolveKey(k, e) == IF k # NoKey THEN k ELSE e

\* MeetingScriptGenerator(api_key=args.api_key): the key check, then the
\* construction of the Bard client, which the library may refuse
Construct ==
  /\ pc = "construct"
  /\ LET key == ResolveKey(args_api_key, env_api_key)
     IN /\ api_key' = key
        /\ \/ /\ key = NoKey
              /\ Raise("MissingCredential")
           \/ /\ key # NoKey
              /\ \/ Raise("ClientInitFailure")
                 \/ /\ pc' = "read"
                    /\ UNCHANGED error
  /\ UNCHANGED <<args_api_key, env_api_key, input_file, args_output, script_type,
                 fs, fs0, dirs, meeting_notes, request, response, now,
                 script_data, ret, exit_status, log>>
  /\ UNCHANGED textVars

\* a variant without the except FileNotFoundError clause
ReadErrorGeneric(i) == "NotesReadFailure"

\* the exception read_meeting_notes raises for what the path resolves to
ReadError(i) == IF i = "missing" THEN "NotesNotFound" ELSE "NotesReadFailure"

\* generator.read_meeting_notes(args.input_file)
ReadNotes ==
  /\ pc = "read"
  /\ \/ /\ input_file = "ok"
        /\ \E n \in Notes : meeting_notes' = n
        /\ log' = Append(log, "read")
        /\ pc' = "generate"
        /\ UNCHANGED error
     \/ /\ input_file # "ok"
        /\ Raise(ReadError(input_file))
        /\ UNCHANGED <<meeting_notes, log>>
  /\ UNCHANGED <<args_api_key, env_api_key, input_file, args_output, script_type,
                 fs, fs0, dirs, api_key, request, response, now,
                 script_data, ret, exit_status>>
  /\ UNCHANGED textVars

\* a variant that sends the request again
RemoteCallRetry(l) == Append(Append(l, "call"), "call")

\* self.bard.get_answer(...): one request to the remote service
RemoteCall(l) == Append(l, "call")

\* generator.generate_script(meeting_notes, args.script_type): the remote
\* call raises, returns nothing, returns a reply without content, or
\* returns a reply with content
GenerateScript ==
  /\ pc = "generate"
  /\ request' = BuildPrompt(meeting_notes, script_type)
  /\ \/ /\ log' = RemoteCall(log)
        /\ Raise("GenerationFailure")
        /\ UNCHANGED <<response, now, script_data>>
     \/ \E r \in Replies, t \in Clock :
          /\ response' = r
          /\ now' = t
          /\ script_data' = [k \in {"script"} |-> ScriptText(r, StrftimeHeader(t), script_type)]
          /\ log' = Append(RemoteCall(log), "script")
          /\ pc' = "output"
          /\ UNCHANGED error
  /\ UNCHANGED <<args_api_key, env_api_key, input_file, args_output, script_type,
                 fs, fs0, dirs, api_key, meeting_notes, ret, exit_status>>
  /\ UNCHANGED textVars

\* main(): the default output path, with os.makedirs(output_dir, exist_ok=True)
DetermineOutput ==
  /\ pc = "output"
  /\ \/ /\ args_output # NoOutput
        /\ pc' = "save"
        /\ UNCHANGED <<args_output, dirs, log, error>>
     \/ /\ args_output = NoOutput
        /\ \/ /\ Raise("MakeDirsFailure")
              /\ UNCHANGED <<args_output, dirs, log>>
           \/ \E t \in Clock :
                /\ args_output' = GeneratedPath(t)
                /\ dirs' = dirs \cup {OutputDir}
                /\ log' = Append(log, "makedirs")
                /\ pc' = "save"
                /\ UNCHANGED error
  /\ UNCHANGED <<args_api_key, env_api_key, input_file, script_type,
                 fs, fs0, api_key, meeting_notes, request, response, now,
                 script_data, ret, exit_status>>
  /\ UNCHANGED textVars

\* a variant that takes the json.dump branch
FileTextJson(data) == <<JSON>>

\* what save_script writes into the file it opened
FileText(data) == IF "script" \in DOMAIN data THEN data["script"] ELSE <<JSON>>

\* what the file holds when file.write or the closing flush fails: nothing
\* (open has emptied it) or a part of the text (its first half stands for
\* every proper prefix)
PartialTexts(text) ==
  {SubSeq(text, 1, k) : k \in {0, Len(text) \div 2}} \ {text}

\* generator.save_script(script_data, args.output): makedirs, open for
\* writing (which empties the file), write, close
SaveScript ==
  /\ pc = "save"
  /\ \/ /\ Raise("SaveFailure")
        /\ UNCHANGED <<fs, dirs, log>>
     \/ /\ dirs' = dirs \cup {DirName(args_output)}
        /\ \/ /\ Raise("SaveFailure")
              /\ log' = Append(log, "makedirs")
              /\ UNCHANGED fs
           \/ /\ \E part \in PartialTexts(FileText(script_data)) :
                   fs' = [fs EXCEPT ![args_output] = File(part)]
              /\ log' = log \o <<"makedirs", "open", "write">>
              /\ Raise("SaveFailure")
           \/ /\ fs' = [fs EXCEPT ![args_output] = File(FileText(script_data))]
              /\ log' = log \o <<"makedirs", "open", "write">>
              /\ pc' = "saved"
              /\ UNCHANGED error
  /\ UNCHANGED <<args_api_key, env_api_key, input_file, args_output, script_type,
                 fs0, api_key, meeting_notes, request, response, now,
                 script_data, ret, exit_status>>
  /\ UNCHANGED textVars

\* main(): the success messages, return 0
ReturnSuccess ==
  /\ pc = "saved"
  /\ ret' = 0
  /\ pc' = "returned"
  /\ UNCHANGED <<args_api_key, env_api_key, input_file, args_output, script_type,
                 fs, fs0, dirs, api_key, meeting_notes, request, response, now,
                 script_data, error, exit_status, log>>
  /\ UNCHANGED textVars

\* main(): except Exception: the diagnostic on stderr, return 1
HandleError ==
  /\ pc = "except"
  /\ ret' = 1
  /\ pc' = "returned"
  /\ UNCHANGED <<args_api_key, env_api_key, input_file, args_output, script_type,
                 fs, fs0, dirs, api_key, meeting_notes, request, response, now,
                 script_data, error, exit_status, log>>
  /\ UNCHANGED textVars

\* what the module-level call of main() does with the value main() returned
ExitStatusOf(r) == 0

\* if __name__ == "__main__": main()   -- then the interpreter ends
ProcessExit ==
  /\ pc = "returned"
  /\ exit_status' = ExitStatusOf(ret)
  /\ pc' = "exited"
  /\ UNCHANGED <<args_api_key, env_api_key, input_file, args_output, script_type,
                 fs, fs0, dirs, api_key, meeting_notes, request, response, now,
                 script_data, error, ret, log>>
  /\ UNCHANGED textVars

Next ==
  \/ Construct
  \/ ReadNotes
  \/ GenerateScript
  \/ DetermineOutput
  \/ SaveScript
  \/ ReturnSuccess
  \/ HandleError
  \/ ProcessExit

Spec == Init /\ [][Next]_vars

\* ------------------------------------------------- text specification
\* The text functions applied to every reply of at most MaxLen tokens.
InitText ==
  /\ RunStart(ArgKey, NoKey, "ok", NoOutput, "script", [p \in Paths |-> Absent])
  /\ \E r \in SeqsUpTo(ReplyAlphabet, MaxLen) : TextStart(r)

ExtractCode ==
  /\ tpc = "start"
  /\ t_code' = _extract_code_from_response(t_reply)
  /\ tpc' = "extracted"
  /\ UNCHANGED <<t_reply, t_valid, t_script>>
  /\ UNCHANGED runVars

ValidateCode ==
  /\ tpc = "extracted"
  /\ t_valid' = _validate_python_code(t_reply)
  /\ tpc' = "validated"
  /\ UNCHANGED <<t_reply, t_code, t_script>>
  /\ UNCHANGED runVars

ComposeScript ==
  /\ tpc = "validated"
  /\ \E t \in Clock, st \in ScriptTypes :
       t_script' = ScriptText(t_reply, StrftimeHeader(t), st)
  /\ tpc' = "generated"
  /\ UNCHANGED <<t_reply, t_code, t_valid>>
  /\ UNCHANGED runVars

NextText ==
  \/ ExtractCode
  \/ ValidateCode
  \/ ComposeScript

SpecText == InitText /\ [][NextText]_vars

\* ---------------------------------------------------------------- claims
Count(l, e) == Cardinality({i \in 1..Len(l) : l[i] = e})
Ended == pc \in {"except", "returned", "exited"}
Succeeded == pc \in {"returned", "exited"} /\ error = NoError
Written(l) == \E i \in 1..Len(l) : l[i] \in {"makedirs", "open", "write"}

\* The fenced block extraction selects, found by position: the first
\* python-tagged opening fence, or without one the first fence marker.
Tagged(r) == \E i \in 1..Len(r) - 1 : r[i] = FENCE /\ r[i + 1] = PY
OpenAt(r) == IF Tagged(r) THEN Find(r, <<FENCE, PY>>, 1) ELSE Find(r, <<FENCE>>, 1)
BodyFrom(r) == IF Tagged(r) THEN OpenAt(r) + 2 ELSE OpenAt(r) + 1
CloseAt(r) == Find(r, <<FENCE>>, BodyFrom(r))
SelectedText(r) ==
  SubSeq(r, BodyFrom(r), IF CloseAt(r) = 0 THEN Len(r) ELSE CloseAt(r) - 1)
SelectedClosed(r) == OpenAt(r) # 0 /\ CloseAt(r) # 0

\* The fenced blocks of a reply: the fence markers paired in order.
FenceIdx(r) == {i \in 1..Len(r) : r[i] = FENCE}
Rank(r, i) == Cardinality({j \in FenceIdx(r) : j <= i})
Blocks(r) ==
  {b \in FenceIdx(r) \X FenceIdx(r) :
     /\ b[1] < b[2]
     /\ Rank(r, b[1]) % 2 = 1
     /\ Rank(r, b[2]) = Rank(r, b[1]) + 1}
BlockText(r, b) ==
  IF b[1] + 1 < b[2] /\ r[b[1] + 1] = PY
    THEN SubSeq(r, b[1] + 2, b[2] - 1)
    ELSE SubSeq(r, b[1] + 1, b[2] - 1)

\* a script with its provenance header taken off
HeaderOf(script) == SubSeq(script, 1, Len(Header("")))
Body(script) == SubSeq(script, Len(Header("")) + 1, Len(script))
IsHeader(h) == \E t \in Clock : h = Header(StrftimeHeader(t))
Provenance(stamp) == <<GEN_ON, stamp, NL, MODEL_IS, Model, NL, SOURCE_IS, NL, NL>>

\* C1: a run started as a command exits with status 0 when it succeeds and
\* with status 1 when main() handled a failure.
C1_ExitStatus ==
  pc = "exited" => exit_status = (IF error = NoError THEN 0 ELSE 1)

\* C2 as stated: a run whose input path does not exist reports the
\* notes-not-found error whatever the other inputs, and makes no remote
\* call, no directory and no file.
C2_AlwaysNotesNotFound ==
  (input_file = "missing" /\ Ended) =>
    /\ error = "NotesNotFound"
    /\ Count(log, "call") = 0
    /\ ~Written(log)
    /\ fs = fs0

\* C2 amended: a run whose input path does not exist reports the
\* notes-not-found error when the generator was constructed (a credential
\* was given and the client accepted it) and the failure of the
\* construction otherwise; in both cases it makes no remote call, no
\* directory and no file.
C2_NotesNotFound ==
  input_file = "missing" =>
    /\ Count(log, "call") = 0
    /\ ~Written(log)
    /\ dirs = {}
    /\ fs = fs0
    /\ Ended =>
         /\ error \in {"MissingCredential", "ClientInitFailure", "NotesNotFound"}
         /\ error = "MissingCredential" <=> ResolveKey(args_api_key, env_api_key) = NoKey
         /\ pc = "exited" => ret = 1

C2_Witness ==
  /\ input_file = "missing"
  /\ pc = "exited"
  /\ error = "NotesNotFound"

\* C3: when the extracted code fails the syntax check before and after the
\* indentation repair, the script generate_script returns holds the two
\* warning comment lines and the extracted code verbatim.
C3_FallbackBanner ==
  (/\ script_data # NoData
   /\ ValidateOutcome(_extract_code_from_response(response)) = "fallback") =>
    /\ Contains(script_data["script"], <<WARN1, NL, WARN2, NL>>)
    /\ Contains(script_data["script"], _extract_code_from_response(response))

\* C4: in a successful run whose reply carries a fenced block of parseable
\* code that does not start with #!, the written file is the provenance
\* comment block, a blank line, the shebang line and a blank line, then the
\* extracted code.
C4_ShebangAfterProvenance ==
  LET code == _extract_code_from_response(response)
      text == fs[args_output].text
  IN (/\ Succeeded
      /\ SelectedClosed(response)
      /\ code # <<>>
      /\ Compiles(code)
      /\ ~StartsWith(code, <<HASHBANG>>)) =>
       \E t \in Clock :
         \/ text = Provenance(StrftimeHeader(t)) \o ShebangLine \o code
         \/ text = Header(StrftimeHeader(t)) \o ShebangLine \o code

\* C5 as stated: for every fenced block of the reply that surrounds
\* parseable code, the script without its provenance header is the trimmed
\* content of that block.
C5_AnyBlockRoundTrip ==
  tpc = "generated" =>
    \A b \in Blocks(t_reply) :
      LET c == Strip(BlockText(t_reply, b))
      IN (c # <<>> /\ Compiles(c)) => Body(t_script) = c

\* C5 amended: when the block extraction selects (the first python-tagged
\* opening fence up to the next fence marker, or without a python-tagged
\* fence the first pair of fence markers) surrounds parseable code, the
\* script without its provenance header is the trimmed content of that
\* block.
C5_RoundTrip ==
  tpc = "generated" =>
    /\ IsHeader(HeaderOf(t_script))
    /\ (SelectedClosed(t_reply) /\ Compiles(Strip(SelectedText(t_reply)))) =>
         Body(t_script) = Strip(SelectedText(t_reply))

C5_Witness ==
  /\ tpc = "generated"
  /\ SelectedClosed(t_reply)
  /\ Strip(SelectedText(t_reply)) # <<>>
  /\ Strip(SelectedText(t_reply)) # SelectedText(t_reply)
  /\ Compiles(Strip(SelectedText(t_reply)))

\* C6: a run issues at most one remote call, also after a failure; every
\* directory or file effect comes after the call, the call comes after the
\* notes were read, and a run that wrote the file issued exactly one call.
C6_OneRemoteCall ==
  /\ Count(log, "call") <= 1
  /\ \A i \in 1..Len(log) :
       /\ log[i] = "call" => \E j \in 1..(i - 1) : log[j] = "read"
       /\ log[i] \in {"makedirs", "open", "write"} =>
            /\ \E j \in 1..(i - 1) : log[j] = "call"
            /\ \A j \in (i + 1)..Len(log) : log[j] # "call"
  /\ Count(log, "write") > 0 => Count(log, "call") = 1
  /\ Ended /\ error # NoError => Count(log, "call") <= 1

C6_Witness ==
  /\ pc = "exited"
  /\ Count(log, "write") = 1
  /\ Count(log, "call") = 1

\* C7: a run produces at most one script and writes the output file at
\* most once; a run that ends in success wrote it exactly once, and the
\* file holds the text generate_script returned from then on.
C7_WrittenOnce ==
  /\ Count(log, "script") <= 1
  /\ Count(log, "write") <= 1
  /\ Count(log, "open") <= 1
  /\ Succeeded =>
       /\ Count(log, "script") = 1
       /\ Count(log, "write") = 1
       /\ fs[args_output] = File(script_data["script"])
       /\ \A p \in Paths \ {args_output} : fs[p] = fs0[p]

C7_Witness ==
  /\ pc = "exited"
  /\ Succeeded
  /\ fs0[args_output] = File(OldText)

\* C8: after save_script ends, in success or in a save-failed error, the
\* file at the output path holds the complete new text or what it held
\* before the call.
C8_AllOrNothing ==
  (pc = "saved" \/ error = "SaveFailure") =>
    \/ fs[args_output] = File(FileText(script_data))
    \/ fs[args_output] = fs0[args_output]

\* C9 as stated: the result is the text between the first python-tagged
\* opening fence and the next closing fence, else the text between the
\* first pair of fence markers, else the trimmed reply.
C9_TextBetween ==
  tpc # "start" =>
    /\ OpenAt(t_reply) = 0 => t_code = Strip(t_reply)
    /\ SelectedClosed(t_reply) => t_code = SelectedText(t_reply)

\* C9 amended: the result is, trimmed of surrounding whitespace, the text
\* from the first python-tagged opening fence to the next fence marker or,
\* without one, to the end of the reply; else the text from the first fence
\* marker to the next or to the end of the reply; else the whole reply.  It
\* holds no fence marker, so nothing past the closing fence is part of it.
C9_Precedence ==
  tpc # "start" =>
    /\ t_code = (IF OpenAt(t_reply) = 0 THEN Strip(t_reply)
                 ELSE Strip(SelectedText(t_reply)))
    /\ ~Contains(t_code, <<FENCE>>)

C9_Witness ==
  /\ tpc # "start"
  /\ Tagged(t_reply)
  /\ Find(t_reply, <<FENCE>>, 1) < OpenAt(t_reply)
  /\ t_code # <<>>

====
